---------------------------- MODULE Spec2Model ----------------------------
(***************************************************************************)
(* A model of virtualenv_tools.py: the path-rewrite flow update_paths and  *)
(* the functions it calls (update_scripts, update_script,                  *)
(* update_activation_script, remove_pycs, remove_pyc, update_local).       *)
(*                                                                         *)
(* Text.  A character (and a byte) is a pair <<s, n>>: <<s, 0>> is ASCII   *)
(* text s, <<"", n>> is the byte / code point n >= 128.  A maximal run of  *)
(* ASCII characters that holds no separator the code looks at (white       *)
(* space, '/', '"', '=', '#', '!', '.') is kept as one symbol, so that     *)
(* "python" is one character of the model; every test the code makes       *)
(* (startswith, endswith, split, the two regular expressions) falls on     *)
(* symbol boundaries.  A string is a sequence of characters, a file's      *)
(* content a sequence of bytes.                                            *)
(*                                                                         *)
(* Files.  The filesystem below the environment root is a function from    *)
(* paths (sequences of names, a name being a sequence of symbols) to       *)
(* nodes: a directory, a regular file with its bytes, or a symbolic link.  *)
(***************************************************************************)
EXTENDS Integers, Sequences, FiniteSets, TLC

\* ----------------------------------------------------------------- bounds
\* How many times the command is run on the same environment.
MaxRuns == 2

\* ------------------------------------------------------------------- text
Ch(s) == <<s, 0>>
Hi(n) == <<"", n>>
Txt(seq) == [i \in DOMAIN seq |-> Ch(seq[i])]

LF == Ch("\n")
CR == Ch("\r")
SP == Ch(" ")
SLASH == Ch("/")
QUOTE == Ch("\"")

IsHigh(c) == c[2] >= 128

\* str.isspace / the regular expressions' \s on str: ASCII white space and, in
\* the Latin-1 range, U+0085 and U+00A0.
IsSpace(c) == c \in {SP, Ch("\t"), LF, CR, Hi(133), Hi(160)}

Tail2(s, k) == SubSeq(s, k, Len(s))

StartsWith(s, p) == Len(s) >= Len(p) /\ SubSeq(s, 1, Len(p)) = p
EndsWith(s, p) == Len(s) >= Len(p) /\ SubSeq(s, Len(s) - Len(p) + 1, Len(s)) = p
Contains(s, p) == \E i \in 1..(Len(s) - Len(p) + 1) : SubSeq(s, i, i + Len(p) - 1) = p

RECURSIVE Concat(_)
Concat(ss) == IF ss = <<>> THEN <<>> ELSE Head(ss) \o Concat(Tail(ss))

RECURSIVE JoinWith(_, _)
JoinWith(sep, ss) ==
    IF ss = <<>> THEN <<>>
    ELSE IF Len(ss) = 1 THEN ss[1]
    ELSE ss[1] \o sep \o JoinWith(sep, Tail(ss))

\* str.split() with no argument: the maximal runs of non-space characters.
RECURSIVE SplitFrom(_, _, _)
SplitFrom(s, i, cur) ==
    IF i > Len(s) THEN (IF cur = <<>> THEN <<>> ELSE <<cur>>)
    ELSE IF IsSpace(s[i])
         THEN (IF cur = <<>> THEN <<>> ELSE <<cur>>) \o SplitFrom(s, i + 1, <<>>)
         ELSE SplitFrom(s, i + 1, Append(cur, s[i]))
Split(s) == SplitFrom(s, 1, <<>>)

\* os.path.isabs and os.path.join(new_path, 'bin', 'python') of posixpath.
IsAbs(p) == StartsWith(p, <<SLASH>>)
PathJoin(a, b) ==
    IF StartsWith(b, <<SLASH>>) THEN b
    ELSE IF a = <<>> \/ EndsWith(a, <<SLASH>>) THEN a \o b
    ELSE a \o <<SLASH>> \o b
NewBin(new_path) == PathJoin(PathJoin(new_path, Txt(<<"bin">>)), Txt(<<"python">>))

\* ---------------------------------------------------------------- text I/O
\* The encodings open() may use: 'latin-1' is named by update_script's read;
\* every other open() takes the locale's preferred encoding.
Encodings == {"utf-8", "latin-1", "ascii"}

IsCont(b) == b[2] >= 128 /\ b[2] <= 191
IsLead2(b) == b[2] >= 194 /\ b[2] <= 223

\* bytes.decode(enc, 'strict'): <<TRUE, text>> or <<FALSE, <<>>>> for a
\* UnicodeDecodeError.  UTF-8 is decoded in its one- and two-byte forms; any
\* other high byte is an error (exact for every content this model reaches: no
\* byte from 0xE0 up is ever followed by two continuation bytes).
RECURSIVE DecodeFrom(_, _, _)
DecodeFrom(data, i, enc) ==
    IF i > Len(data) THEN <<TRUE, <<>>>>
    ELSE IF ~IsHigh(data[i]) \/ enc = "latin-1"
         THEN LET r == DecodeFrom(data, i + 1, enc)
              IN  <<r[1], <<data[i]>> \o r[2]>>
    ELSE IF enc = "utf-8" /\ IsLead2(data[i]) /\ i < Len(data) /\ IsCont(data[i + 1])
         THEN LET r == DecodeFrom(data, i + 2, enc)
              IN  <<r[1], <<Hi((data[i][2] - 192) * 64 + (data[i + 1][2] - 128))>> \o r[2]>>
    ELSE <<FALSE, <<>>>>
Decode(data, enc) ==
    LET r == DecodeFrom(data, 1, enc) IN IF r[1] THEN r ELSE <<FALSE, <<>>>>

\* str.encode(enc, 'strict') of one character: <<TRUE, bytes>> or <<FALSE, <<>>>>
\* for a UnicodeEncodeError.
EncodeChar(c, enc) ==
    IF ~IsHigh(c) THEN <<TRUE, <<c>>>>
    ELSE IF enc = "utf-8" /\ c[2] < 2048
         THEN <<TRUE, <<Hi(192 + (c[2] \div 64)), Hi(128 + (c[2] % 64))>>>>
    ELSE IF enc = "latin-1" /\ c[2] <= 255 THEN <<TRUE, <<c>>>>
    ELSE <<FALSE, <<>>>>

RECURSIVE Encode(_, _)
Encode(text, enc) ==
    IF text = <<>> THEN <<TRUE, <<>>>>
    ELSE LET h == EncodeChar(Head(text), enc)
             r == Encode(Tail(text), enc)
         IN  IF h[1] /\ r[1] THEN <<TRUE, h[2] \o r[2]>> ELSE <<FALSE, <<>>>>

\* Reading in text mode with newline=None: '\r\n' and '\r' become '\n'.
RECURSIVE UniversalNewlines(_)
UniversalNewlines(text) ==
    IF text = <<>> THEN <<>>
    ELSE IF Head(text) = CR
         THEN IF Len(text) >= 2 /\ text[2] = LF
              THEN <<LF>> \o UniversalNewlines(Tail2(text, 3))
              ELSE <<LF>> \o UniversalNewlines(Tail(text))
         ELSE <<Head(text)>> \o UniversalNewlines(Tail(text))

\* list(f): the lines, each with its '\n' (the last one may lack it).
RECURSIVE LinesFrom(_, _, _)
LinesFrom(text, i, cur) ==
    IF i > Len(text) THEN (IF cur = <<>> THEN <<>> ELSE <<cur>>)
    ELSE IF text[i] = LF
         THEN <<Append(cur, LF)>> \o LinesFrom(text, i + 1, <<>>)
         ELSE LinesFrom(text, i + 1, Append(cur, text[i]))
SplitLines(text) == LinesFrom(text, 1, <<>>)

\* with open(name, encoding=enc) as f: lines = list(f)
\* <<TRUE, lines>>, or <<FALSE, <<>>>> when decoding raises.
ReadLines(data, enc) ==
    LET d == Decode(data, enc)
    IN  IF d[1] THEN <<TRUE, SplitLines(UniversalNewlines(d[2]))>> ELSE <<FALSE, <<>>>>

\* with open(name, 'w') as f: f.writelines(lines), on POSIX ('\n' is written as
\* it is).  open() truncates the file; each line is encoded as it is written, so
\* when a line cannot be encoded the lines before it are what the file holds:
\* <<FALSE, those bytes>>.
RECURSIVE WriteLines(_, _)
WriteLines(lines, enc) ==
    IF lines = <<>> THEN <<TRUE, <<>>>>
    ELSE LET h == Encode(Head(lines), enc)
         IN  IF ~h[1] THEN <<FALSE, <<>>>>
             ELSE LET r == WriteLines(Tail(lines), enc)
                  IN  <<r[1], h[2] \o r[2]>>

\* ------------------------------------------------------- the two patterns
ACTIVATION_SCRIPTS == {<<"activate">>, <<"activate", ".csh">>, <<"activate", ".fish">>}

\* _pybin_match: ^python\d+\.\d+$ on a name; a run of digits is one symbol.
DigitRuns == {"2", "3", "7", "9", "11"}
pybin_match(name) ==
    /\ Len(name) = 4
    /\ name[1] = "python"
    /\ name[2] \in DigitRuns
    /\ name[3] = "."
    /\ name[4] \in DigitRuns

\* _activation_path_re: ^(?:set -gx |setenv |)VIRTUAL_ENV[ =]"(.*?)"\s*$
\* The three alternatives of the optional keyword, each followed by the name.
ActivationHeads ==
    { Txt(<<"set", " ", "-gx", " ", "VIRTUAL_ENV">>),
      Txt(<<"setenv", " ", "VIRTUAL_ENV">>),
      Txt(<<"VIRTUAL_ENV">>) }

\* Where group 1 starts in `line` (the index after the opening quote), 0 when
\* the pattern's head does not match at the start of the line.
GroupStart(line) ==
    LET hs == { h \in ActivationHeads :
                  /\ StartsWith(line, h)
                  /\ Len(line) >= Len(h) + 2
                  /\ line[Len(h) + 1] \in {SP, Ch("=")}
                  /\ line[Len(h) + 2] = QUOTE }
    IN  IF hs = {} THEN 0 ELSE Len(CHOOSE h \in hs : TRUE) + 3

\* The indexes of a closing quote the pattern accepts: group 1 (lazy, '.' is
\* any character but '\n') runs from gs up to it, and only white space follows
\* up to the end of the line.
ClosingQuotes(line, gs) ==
    { q \in gs..Len(line) :
        /\ line[q] = QUOTE
        /\ \A j \in gs..(q - 1) : line[j] # LF
        /\ \A j \in (q + 1)..Len(line) : IsSpace(line[j]) }

\* _activation_path_re.sub(_handle_sub, line): the match, when there is one,
\* spans the whole line, and _handle_sub puts new_path in place of group 1.
ActivationSub(line, new_path) ==
    LET gs == GroupStart(line)
        qs == IF gs = 0 THEN {} ELSE ClosingQuotes(line, gs)
    IN  IF qs = {} THEN line
        ELSE LET q == CHOOSE x \in qs : \A y \in qs : x <= y
             IN  SubSeq(line, 1, gs - 1) \o new_path \o Tail2(line, q)

\* ------------------------------------------------------ the two rewriters
\* What a rewriter did to one file: whether it raised, whether it printed its
\* notice, whether it opened the file for writing, and the bytes the file holds
\* afterwards.
Outcome(raised, notice, wrote, data) ==
    [raised |-> raised, notice |-> notice, wrote |-> wrote, data |-> data]

\* The for loop of update_activation_script over the lines.
SubLines(lines, new_path) == [i \in DOMAIN lines |-> ActivationSub(lines[i], new_path)]

update_activation_script(data, new_path, enc) ==
    LET r == ReadLines(data, enc)
    IN  IF ~r[1] THEN Outcome(TRUE, FALSE, FALSE, data)
        ELSE LET lines == r[2]
                 new_lines == SubLines(lines, new_path)
                 changed == \E i \in DOMAIN lines : lines[i] # new_lines[i]
                 w == WriteLines(new_lines, enc)
             IN  IF ~changed THEN Outcome(FALSE, FALSE, FALSE, data)
                 ELSE Outcome(~w[1], TRUE, TRUE, w[2])

\* lines[0][2:].strip().split()
ShebangArgs(line) == Split(Tail2(line, 3))

BinPython == Txt(<<"/", "bin", "/", "python">>)
EnvPython == Txt(<<"/", "usr", "/", "bin", "/", "env", " ", "python">>)

\* update_script without its test new_bin == args[0].
SkipScript_NoEqualTest(lines, new_path) ==
    \/ lines = <<>>
    \/ ~StartsWith(lines[1], Txt(<<"#", "!">>))
    \/ ShebangArgs(lines[1]) = <<>>
    \/ ~EndsWith(ShebangArgs(lines[1])[1], BinPython)
    \/ Contains(ShebangArgs(lines[1])[1], EnvPython)

\* The early returns of update_script: TRUE when the file is left alone.
SkipScript(lines, new_path) ==
    \/ lines = <<>>
    \/ ~StartsWith(lines[1], Txt(<<"#", "!">>))
    \/ ShebangArgs(lines[1]) = <<>>
    \/ ~EndsWith(ShebangArgs(lines[1])[1], BinPython)
    \/ Contains(ShebangArgs(lines[1])[1], EnvPython)
    \/ NewBin(new_path) = ShebangArgs(lines[1])[1]

\* args[0] = new_bin; lines[0] = '#!%s\n' % ' '.join(args)
NewShebang(line, new_path) ==
    LET args == ShebangArgs(line)
    IN  Txt(<<"#", "!">>) \o JoinWith(<<SP>>, <<NewBin(new_path)>> \o Tail(args)) \o <<LF>>

update_script(data, new_path, enc) ==
    LET lines == ReadLines(data, "latin-1")[2]
    IN  IF SkipScript(lines, new_path) THEN Outcome(FALSE, FALSE, FALSE, data)
        ELSE LET new_lines == <<NewShebang(lines[1], new_path)>> \o Tail(lines)
                 w == WriteLines(new_lines, enc)
             IN  Outcome(~w[1], TRUE, TRUE, w[2])

\* ------------------------------------------------------------- filesystem
\* A node: kind is "dir", "file" or "link".  A file holds data.  A link holds
\* its target string and `to`, what the target resolves to ("dir", "file" or
\* "none" for a dangling link); a link to a file carries that file's data.  A
\* directory is writable or not (entries can be removed from and created in a
\* writable directory only).
Node(kind, data, target, to, writable) ==
    [kind |-> kind, data |-> data, target |-> target, to |-> to, writable |-> writable]
Dir(writable) == Node("dir", <<>>, <<>>, "none", writable)
File(data) == Node("file", data, <<>>, "none", TRUE)
Link(target, to, data) == Node("link", data, target, to, TRUE)

nBin == <<"bin">>
nLib == <<"lib">>
nLocal == <<"local">>
nInclude == <<"include">>
nPython == <<"python">>

\* os.path.isdir, os.path.isfile (both follow links), os.path.islink,
\* os.readlink, os.listdir.
isdir(f, p) ==
    p \in DOMAIN f /\ (f[p].kind = "dir" \/ (f[p].kind = "link" /\ f[p].to = "dir"))
isfile(f, p) ==
    p \in DOMAIN f /\ (f[p].kind = "file" \/ (f[p].kind = "link" /\ f[p].to = "file"))
islink(f, p) == p \in DOMAIN f /\ f[p].kind = "link"
readlink(f, p) == f[p].target
Children(f, p) == { q \in DOMAIN f : Len(q) = Len(p) + 1 /\ SubSeq(q, 1, Len(p)) = p }
listdir(f, p) == { q[Len(q)] : q \in Children(f, p) }

Parent(p) == SubSeq(p, 1, Len(p) - 1)
\* The environment root itself is a writable directory.
ParentWritable(f, p) == Len(p) = 1 \/ (Parent(p) \in DOMAIN f /\ f[Parent(p)].writable)

Remove(f, p) == [q \in DOMAIN f \ {p} |-> f[q]]
Put(f, p, node) == [q \in DOMAIN f \cup {p} |-> IF q = p THEN node ELSE f[q]]

\* What a relative target '../<folder>' inside <root>/local resolves to.
ResolvesTo(f, folder) ==
    IF isdir(f, <<folder>>) THEN "dir" ELSE IF isfile(f, <<folder>>) THEN "file" ELSE "none"

\* ------------------------------------------------------------------ state
VARIABLES
    fs,        \* the filesystem below the environment root
    enc,       \* the locale's preferred encoding (open() without encoding=)
    new_path,  \* update_paths' argument in the current run
    pc,        \* where update_paths is: "idle", "scripts", "pycs", "local"
    rv,        \* "none", "running", "True", "False", or "raised" (an exception)
    out,       \* the lines printed in the current run: <<tag, path>>
    lib_dir,   \* update_paths' lib_dir
    todo,      \* update_scripts: the entries of os.listdir(bin_dir) still to visit
    visited,   \* update_scripts: the entries visited, in order
    stack,     \* os.walk: the directories still to scan
    cur,       \* os.walk: dirname of the triple being handled
    files,     \* remove_pycs: the filenames of the triple still to look at
    folders,   \* update_local: the folders still to look at
    runs,      \* how many runs were started
    fs0,       \* the filesystem when the current run started
    prev       \* the run before the current one: its new_path and its rv

vars == <<fs, enc, new_path, pc, rv, out, lib_dir, todo, visited, stack, cur,
          files, folders, runs, fs0, prev>>

\* ------------------------------------------------- the environments tried
\* The target paths tried: two absolute ones (one with a trailing slash), a
\* relative path, and an absolute path with a blank in it.
NewPaths ==
    { Txt(<<"/", "new">>),
      Txt(<<"/", "new", "/">>),
      Txt(<<"new">>),
      Txt(<<"/", "a", "/", "bin", "/", "python", " ", "x">>) }

FsOf(pairs) == [p \in {x[1] : x \in pairs} |-> (CHOOSE x \in pairs : x[1] = p)[2]]

Py311 == <<"python", "3", ".", "11">>
Py27 == <<"python", "2", ".", "7">>
nPip == <<"pip">>
nPyc == <<"a", ".pyc">>

ELF == <<Ch("ELF"), Hi(233), Hi(0)>>
PYC == <<Hi(227), Ch("code")>>
OldShebang == Txt(<<"#", "!", "/", "old", "/", "bin", "/", "python", " ", "-O", "\n">>)
OldScript == OldShebang \o Txt(<<"import", " ", "x", "\n">>)

\* A valid environment: bin/python, bin/pip, lib/python3.11/a.pyc.
BinPart ==
    { <<<<nBin>>, Dir(TRUE)>>,
      <<<<nBin, nPython>>, File(ELF)>>,
      <<<<nBin, nPip>>, File(OldScript)>> }
LibPart ==
    { <<<<nLib>>, Dir(TRUE)>>,
      <<<<nLib, Py311>>, Dir(TRUE)>>,
      <<<<nLib, Py311, nPyc>>, File(PYC)>> }

\* Generic scripts: a first line and what follows it.
ScriptFirsts ==
    { OldShebang,
      Txt(<<"#", "!", "/", "old", "/", "bin", "/", "python", "\n">>),
      Txt(<<"#", "!", "/", "usr", "/", "bin", "/", "env", " ", "python", "\n">>),
      Txt(<<"#", "!", "/", "new", "/", "bin", "/", "python", "\n">>),
      Txt(<<"#", "!", "\n">>),
      Txt(<<"#", "!", "/", "bin", "/", "sh", "\n">>),
      Txt(<<"#", "!", " ", "/", "old", "/", "bin", "/", "python", " ", " ", "-O", " ", "\n">>),
      Txt(<<"import", " ", "x", "\n">>),
      Txt(<<"#", "!", "/", "old", "/", "bin", "/", "python", " ", "-O", "\r", "\n">>) }
ScriptRests ==
    { <<>>,
      Txt(<<"import", " ", "x", "\n">>),
      <<Ch("caf"), Hi(233), LF>>,
      Txt(<<"x", "\r", "\n", "y", "\n">>) }
ScriptContents ==
    { f \o r : f \in ScriptFirsts, r \in ScriptRests }
      \cup { <<>>, Txt(<<"#", "!", "/", "old", "/", "bin", "/", "python">>) }
ScriptEnvs ==
    { FsOf({ <<<<nBin>>, Dir(TRUE)>>,
             <<<<nBin, nPython>>, File(ELF)>>,
             <<<<nBin, nPip>>, File(c)>> } \cup LibPart) : c \in ScriptContents }

\* Activation scripts: the assignment line, what precedes and what follows it.
ActLines ==
    { Txt(<<"VIRTUAL_ENV", "=", "\"", "/", "old", "\"", "\n">>),
      Txt(<<"setenv", " ", "VIRTUAL_ENV", " ", "\"", "/", "old", "\"", "\n">>),
      Txt(<<"set", " ", "-gx", " ", "VIRTUAL_ENV", " ", "\"", "/", "old", "\"", " ", "\n">>),
      Txt(<<"VIRTUAL_ENV", " ", "\"", "/", "old", "\"", "\n">>),
      Txt(<<"setenv", " ", "VIRTUAL_ENV", "=", "\"", "/", "old", "\"", "\n">>),
      Txt(<<"VIRTUAL_ENV", "=", "\"", "/", "new", "\"", "\n">>),
      Txt(<<"export", " ", "VIRTUAL_ENV", "=", "\"", "/", "old", "\"", "\n">>),
      Txt(<<"VIRTUAL_ENV", "=", "\"", "/", "old", "\"", ";", "\n">>),
      Txt(<<"VIRTUAL_ENV", "=", "\"", "/", "old", "\"", "\r", "\n">>),
      Txt(<<"VIRTUAL_ENV", "=", "\"", "/", "o", "\"", "ld", "\"", "\n">>) }
ActBefore == { <<>>, Txt(<<"#", " ", "c", "\n">>) }
ActAfter ==
    { <<>>,
      Txt(<<"deactivate", "\n">>),
      <<Hi(233), LF>>,
      <<Hi(195), Hi(169), LF>> }
ActContents == { b \o l \o a : b \in ActBefore, l \in ActLines, a \in ActAfter }
ActName(c) ==
    IF Contains(c, Txt(<<"set", " ", "-gx">>)) THEN <<"activate", ".fish">>
    ELSE IF Contains(c, Txt(<<"setenv">>)) THEN <<"activate", ".csh">>
    ELSE <<"activate">>
ActEnvs ==
    { FsOf({ <<<<nBin>>, Dir(TRUE)>>,
             <<<<nBin, nPython>>, File(ELF)>>,
             <<<<nBin, ActName(c)>>, File(c)>> } \cup LibPart) : c \in ActContents }

\* Other kinds of entries in bin/: a subdirectory with files of its own, a
\* dangling link, a link to a script elsewhere, a directory with the name of an
\* activation script.
nCache == <<"__pycache__">>
BinExtras ==
    { { <<<<nBin, nCache>>, Dir(TRUE)>>,
        <<<<nBin, nCache, nPyc>>, File(PYC)>>,
        <<<<nBin, nCache, <<"run">>>>, File(OldScript)>> },
      { <<<<nBin, <<"gone">>>>, Link(<<"/", "nowhere">>, "none", <<>>)>> },
      { <<<<nBin, <<"tool">>>>, Link(<<"/", "opt", "/", "tool">>, "file", OldScript)>> },
      { <<<<nBin, <<"activate">>>>, Dir(TRUE)>> },
      { <<<<nBin, <<"activate">>>>, File(Txt(<<"VIRTUAL_ENV", "=", "\"", "/", "old", "\"", "\n">>))>>,
        <<<<nBin, <<"easy_install">>>>, File(OldScript)>> } }
EntryEnvs == { FsOf(BinPart \cup LibPart \cup x) : x \in BinExtras }

\* Layouts: what bin/ and lib/ may look like.
WrongLink == { <<<<nLocal>>, Dir(TRUE)>>,
               <<<<nLocal, nBin>>, Link(<<"..", "/", "wrong">>, "none", <<>>)>> }
BinLayouts ==
    { {},
      { <<<<nBin>>, File(<<>>)>> },
      { <<<<nBin>>, Dir(TRUE)>>, <<<<nBin, nPip>>, File(OldScript)>> },
      { <<<<nBin>>, Dir(TRUE)>>, <<<<nBin, nPip>>, File(OldScript)>>,
        <<<<nBin, nPython>>, Dir(TRUE)>> },
      { <<<<nBin>>, Dir(TRUE)>>, <<<<nBin, nPip>>, File(OldScript)>>,
        <<<<nBin, nPython>>, Link(<<"/", "usr", "/", "bin", "/", "python">>, "none", <<>>)>> },
      { <<<<nBin>>, Dir(TRUE)>>, <<<<nBin, nPip>>, File(OldScript)>>,
        <<<<nBin, nPython>>, Link(<<"/", "usr", "/", "bin", "/", "python">>, "file", ELF)>> },
      BinPart }
LibLayouts ==
    { {},
      { <<<<nLib>>, File(<<>>)>> },
      { <<<<nLib>>, Dir(TRUE)>> },
      { <<<<nLib>>, Dir(TRUE)>>,
        <<<<nLib, <<"python">>>>, Dir(TRUE)>>,
        <<<<nLib, <<"python">>, nPyc>>, File(PYC)>>,
        <<<<nLib, <<"pypy", "3", ".", "9">>>>, Dir(TRUE)>>,
        <<<<nLib, <<"python", "3", ".", "11", "-config">>>>, Dir(TRUE)>> },
      LibPart,
      LibPart \cup { <<<<nLib, Py27>>, Dir(TRUE)>>,
                     <<<<nLib, Py27, <<"b", ".pyc">>>>, File(PYC)>> },
      LibPart \cup { <<<<nLib, Py27>>, File(<<>>)>> },
      { <<<<nLib>>, Dir(TRUE)>>, <<<<nLib, <<"python", "3", ".", "9">>>>, File(<<>>)>> } }
LayoutEnvs == { FsOf(b \cup l \cup WrongLink) : b \in BinLayouts, l \in LibLayouts }

\* Library trees below lib/python3.11: files with and without a bytecode
\* extension at three depths, a read-only package, a link to a directory, links
\* and a directory whose names end in a bytecode extension, and a bytecode file
\* in lib/ outside the versioned directory.
nPkg == <<"pkg">>
nSub == <<"sub">>
Top == <<nLib, Py311>>
PkgPart(writable) ==
    { <<Top \o <<nPkg>>, Dir(writable)>>,
      <<Top \o <<nPkg, <<"c", ".pyo">>>>, File(PYC)>>,
      <<Top \o <<nPkg, <<"d", ".txt">>>>, File(Txt(<<"d">>))>>,
      <<Top \o <<nPkg, nSub>>, Dir(TRUE)>>,
      <<Top \o <<nPkg, nSub, <<"e", ".pyc">>>>, File(PYC)>>,
      <<Top \o <<nPkg, nSub, <<"e", ".pyc", ".bak">>>>, File(PYC)>> }
OddPart ==
    { <<Top \o <<<<"ext">>>>, Link(<<"/", "usr", "/", "lib">>, "dir", <<>>)>>,
      <<Top \o <<<<"l", ".pyc">>>>, Link(<<"/", "usr", "/", "l", ".pyc">>, "file", PYC)>>,
      <<Top \o <<<<"g", ".pyo">>>>, Link(<<"/", "nowhere">>, "none", <<>>)>>,
      <<Top \o <<<<"x", ".pyc">>>>, Dir(TRUE)>>,
      <<Top \o <<<<"x", ".pyc">>, <<"keep", ".txt">>>>, File(Txt(<<"k">>))>>,
      <<<<nLib, <<"site">>>>, Dir(TRUE)>>,
      <<<<nLib, <<"site">>, <<"h", ".pyc">>>>, File(PYC)>> }
TreeParts ==
    { { <<<<nLib>>, Dir(TRUE)>>,
        <<Top, Dir(w)>>,
        <<Top \o <<nPyc>>, File(PYC)>>,
        <<Top \o <<<<"b", ".py">>>>, File(Txt(<<"b">>))>> } \cup pkg \cup odd :
      w \in BOOLEAN,
      pkg \in {{}, PkgPart(TRUE), PkgPart(FALSE)},
      odd \in {{}, OddPart} }
TreeEnvs == { FsOf(BinPart \cup t \cup WrongLink) : t \in TreeParts }

\* Link farms: local/ missing, a file, or a directory (writable or not) with
\* its three entries in several shapes.
GoodLink(folder) == Link(<<"..", "/">> \o folder, "dir", <<>>)
BadLink(folder) == Link(<<"/", "old", "/">> \o folder, "none", <<>>)
LocalBins ==
    { {},
      { <<<<nLocal, nBin>>, BadLink(nBin)>> },
      { <<<<nLocal, nBin>>, GoodLink(nBin)>> },
      { <<<<nLocal, nBin>>, Dir(TRUE)>> },
      { <<<<nLocal, nBin>>, File(Txt(<<"x">>))>> } }
LocalLibs ==
    { { <<<<nLocal, nLib>>, BadLink(nLib)>> },
      { <<<<nLocal, nLib>>, GoodLink(nLib)>> } }
LocalIncludes ==
    { {},
      { <<<<nLocal, nInclude>>, BadLink(nInclude)>> } }
LocalParts ==
    { {}, { <<<<nLocal>>, File(<<>>)>> } }
      \cup { { <<<<nLocal>>, Dir(w)>> } \cup b \cup l \cup i :
             w \in BOOLEAN, b \in LocalBins, l \in LocalLibs, i \in LocalIncludes }
LocalEnvs == { FsOf(BinPart \cup LibPart \cup x) : x \in LocalParts }

\* An environment: a filesystem and the locale's encoding.
InitialEnvs ==
    ((ScriptEnvs \cup ActEnvs \cup EntryEnvs) \X Encodings)
        \cup ((LayoutEnvs \cup TreeEnvs \cup LocalEnvs) \X {"utf-8"})

Init ==
    /\ \E e \in InitialEnvs : fs = e[1] /\ enc = e[2]
    /\ new_path = <<>>
    /\ pc = "idle"
    /\ rv = "none"
    /\ out = <<>>
    /\ lib_dir = <<>>
    /\ todo = {}
    /\ visited = <<>>
    /\ stack = <<>>
    /\ cur = <<>>
    /\ files = {}
    /\ folders = <<>>
    /\ runs = 0
    /\ fs0 = fs
    /\ prev = [path |-> <<>>, rv |-> "none"]

\* ------------------------------------------------------------ update_paths
Notice(tag, path) == <<tag, path>>

\* The loop of update_paths taking any entry of lib/, matching or not.
LibCandidates_AnyName(f) ==
    IF isdir(f, <<nLib>>) THEN listdir(f, <<nLib>>) ELSE {}

\* The for loop over os.listdir(base_lib_dir): the names that can be the first
\* match (the order of a directory listing is arbitrary).
LibCandidates(f) ==
    IF isdir(f, <<nLib>>) THEN { n \in listdir(f, <<nLib>>) : pybin_match(n) } ELSE {}

\* update_paths without its test of bin/python.
NotAnInstallation_NoPythonTest(f) ==
    \/ LibCandidates(f) = {}
    \/ ~isdir(f, <<nBin>>)

\* lib_dir is None or not isdir(bin_dir) or not isfile(bin_dir/python)
NotAnInstallation(f) ==
    \/ LibCandidates(f) = {}
    \/ ~isdir(f, <<nBin>>)
    \/ ~isfile(f, <<nBin, nPython>>)

\* A run starts: the state of the run before it is dropped.
Begin(P) ==
    /\ rv # "running"
    /\ runs < MaxRuns
    /\ runs' = runs + 1
    /\ new_path' = P
    /\ fs0' = fs
    /\ prev' = [path |-> new_path, rv |-> rv]
    /\ visited' = <<>>
    /\ UNCHANGED <<fs, enc>>

\* update_paths calling update_local before remove_pycs.
StageAfter_LinksFirst(stage) ==
    CASE stage = "scripts" -> "local"
      [] stage = "local" -> "pycs"
      [] stage = "pycs" -> "done"

\* The stages of update_paths in the order of its calls (lines 160-164), "done"
\* being return True.
FirstStage == "scripts"
StageAfter(stage) ==
    CASE stage = "scripts" -> "pycs"
      [] stage = "pycs" -> "local"
      [] stage = "local" -> "done"

\* Entering a stage: update_scripts lists bin_dir, os.walk starts at lib_dir,
\* update_local returns at once unless <base>/local is a directory.
Enter(stage, libdir) ==
    /\ pc' = IF stage = "done" THEN "idle" ELSE stage
    /\ rv' = IF stage = "done" THEN "True" ELSE "running"
    /\ todo' = IF stage = "scripts" THEN listdir(fs, <<nBin>>) ELSE {}
    /\ stack' = IF stage = "pycs" THEN <<libdir>> ELSE <<>>
    /\ folders' = IF stage = "local" /\ isdir(fs, <<nLocal>>)
                  THEN <<nBin, nLib, nInclude>> ELSE <<>>
    /\ cur' = <<>>
    /\ files' = {}

Rejected ==
    /\ out' = <<Notice("error", <<>>)>>
    /\ rv' = "False"
    /\ pc' = "idle"
    /\ lib_dir' = <<>>
    /\ todo' = {}
    /\ stack' = <<>>
    /\ cur' = <<>>
    /\ files' = {}
    /\ folders' = <<>>

\* update_paths, lines 139-141: the target is not absolute.
RejectPath ==
    \E P \in NewPaths :
        /\ Begin(P)
        /\ ~IsAbs(P)
        /\ Rejected

\* update_paths, lines 143-158: the root is not an installation.
RejectRoot ==
    \E P \in NewPaths :
        /\ Begin(P)
        /\ IsAbs(P)
        /\ NotAnInstallation(fs)
        /\ Rejected

\* update_paths, lines 143-160: the root is accepted, update_scripts lists bin/.
Accept ==
    \E P \in NewPaths :
        /\ Begin(P)
        /\ IsAbs(P)
        /\ ~NotAnInstallation(fs)
        /\ \E folder \in LibCandidates(fs) :
               /\ lib_dir' = <<nLib, folder>>
               /\ Enter(FirstStage, <<nLib, folder>>)
        /\ out' = <<>>

\* update_paths, lines 160-164: a stage is over, the next call is made (or
\* True is returned).
StageOver ==
    \/ pc = "scripts" /\ todo = {}
    \/ pc = "pycs" /\ stack = <<>> /\ files = {}
    \/ pc = "local" /\ folders = <<>>
Sequence ==
    /\ rv = "running"
    /\ StageOver
    /\ Enter(StageAfter(pc), lib_dir)
    /\ UNCHANGED <<fs, enc, new_path, out, lib_dir, visited, runs, fs0, prev>>

\* ---------------------------------------------------------- update_scripts
\* open() succeeds on a regular file and on a link to one.
CanOpen(node) == node.kind = "file" \/ (node.kind = "link" /\ node.to = "file")

\* The branch of update_scripts' loop body.
Rewriter(fn, data, P, e) ==
    IF fn \in ACTIVATION_SCRIPTS
    THEN update_activation_script(data, P, e)
    ELSE update_script(data, P, e)
NoticeTag(fn) == IF fn \in ACTIVATION_SCRIPTS THEN "A" ELSE "S"

\* One turn of update_scripts' loop: the entry fn of the listing.
UpdateScripts ==
    /\ pc = "scripts"
    /\ rv = "running"
    /\ \E fn \in todo :
         LET p == <<nBin, fn>>
             o == Rewriter(fn, fs[p].data, new_path, enc)
         IN  /\ todo' = todo \ {fn}
             /\ visited' = Append(visited, fn)
             /\ IF ~CanOpen(fs[p])
                THEN /\ rv' = "raised"
                     /\ UNCHANGED <<fs, out>>
                ELSE /\ fs' = IF o.wrote THEN [fs EXCEPT ![p].data = o.data] ELSE fs
                     /\ out' = IF o.notice THEN Append(out, Notice(NoticeTag(fn), p)) ELSE out
                     /\ rv' = IF o.raised THEN "raised" ELSE "running"
    /\ UNCHANGED <<enc, new_path, pc, lib_dir, stack, cur, files, folders, runs, fs0, prev>>

\* ------------------------------------------------------------- remove_pycs
Perms(S) == { s \in [1..Cardinality(S) -> S] : \A i, j \in DOMAIN s : i # j => s[i] # s[j] }

\* os.walk(lib_dir), top down, followlinks=False, onerror=None: one directory
\* is scanned.  A top that cannot be scanned yields nothing; the entries that
\* are directories (links to directories among them) go to dirnames, the others
\* to filenames; the walk goes down into the dirnames that are not links.
Walk ==
    /\ pc = "pycs"
    /\ rv = "running"
    /\ files = {}
    /\ stack # <<>>
    /\ LET d == Head(stack)
           names == IF isdir(fs, d) THEN listdir(fs, d) ELSE {}
           dirnames == { n \in names : isdir(fs, d \o <<n>>) }
           filenames == names \ dirnames
           down == { n \in dirnames : ~islink(fs, d \o <<n>>) }
       IN  /\ cur' = d
           /\ files' = filenames
           /\ \E order \in Perms(down) :
                stack' = [i \in DOMAIN order |-> d \o <<order[i]>>] \o Tail(stack)
    /\ UNCHANGED <<fs, enc, new_path, pc, rv, out, lib_dir, todo, visited, folders,
                   runs, fs0, prev>>

\* remove_pycs looking for '.pyc' only.
IsBytecode_PycOnly(name) == name # <<>> /\ name[Len(name)] = ".pyc"

\* filename.endswith(('.pyc', '.pyo'))
IsBytecode(name) == name # <<>> /\ name[Len(name)] \in {".pyc", ".pyo"}

\* One turn of remove_pycs' inner loop, with remove_pyc: the notice is printed,
\* then os.remove raises when the directory does not allow the removal.
RemovePycs ==
    /\ pc = "pycs"
    /\ rv = "running"
    /\ \E fn \in files :
         LET p == cur \o <<fn>>
         IN  /\ files' = files \ {fn}
             /\ IF ~IsBytecode(fn) THEN UNCHANGED <<fs, out, rv>>
                ELSE /\ out' = Append(out, Notice("D", p))
                     /\ IF ParentWritable(fs, p)
                        THEN fs' = Remove(fs, p) /\ rv' = rv
                        ELSE fs' = fs /\ rv' = "raised"
    /\ UNCHANGED <<enc, new_path, pc, lib_dir, todo, visited, stack, cur, folders,
                   runs, fs0, prev>>

\* ------------------------------------------------------------ update_local
LocalTarget(folder) == <<"..", "/">> \o folder

\* update_local without its comparison of the link's target.
WrongLocalLink_AnyLink(f, folder) == islink(f, <<nLocal, folder>>)

\* os.path.islink(filename) and os.readlink(filename) != target
WrongLocalLink(f, folder) ==
    /\ islink(f, <<nLocal, folder>>)
    /\ readlink(f, <<nLocal, folder>>) # LocalTarget(folder)

\* One turn of update_local's loop.
UpdateLocal ==
    /\ pc = "local"
    /\ rv = "running"
    /\ folders # <<>>
    /\ LET folder == Head(folders)
           filename == <<nLocal, folder>>
       IN  /\ folders' = Tail(folders)
           /\ IF ~WrongLocalLink(fs, folder) THEN UNCHANGED <<fs, out, rv>>
              ELSE IF ~ParentWritable(fs, filename)
              THEN rv' = "raised" /\ UNCHANGED <<fs, out>>
              ELSE /\ fs' = Put(Remove(fs, filename), filename,
                                Link(LocalTarget(folder), ResolvesTo(fs, folder), <<>>))
                   /\ out' = Append(out, Notice("L", filename))
                   /\ rv' = rv
    /\ UNCHANGED <<enc, new_path, pc, lib_dir, todo, visited, stack, cur, files,
                   runs, fs0, prev>>

Next ==
    \/ RejectPath
    \/ RejectRoot
    \/ Accept
    \/ Sequence
    \/ UpdateScripts
    \/ Walk
    \/ RemovePycs
    \/ UpdateLocal

Spec == Init /\ [][Next]_vars

\* ================================================================= claims
Range(seq) == { seq[i] : i \in DOMAIN seq }
Count(seq, x) == Cardinality({ i \in DOMAIN seq : seq[i] = x })
Last(q) == q[Len(q)]
Under(q, d) == Len(q) > Len(d) /\ SubSeq(q, 1, Len(d)) = d
\* The current run passed validation and detection.
Accepted == runs > 0 /\ rv \in {"running", "True", "raised"}

\* ----------------------------------------------------------------- C1
\* C1: a run that returns True after a run with the same target that returned
\* True leaves every entry below bin/ as the first run left it: the second run
\* rewrites no script.
C1_Idempotent ==
    (rv = "True" /\ prev.rv = "True" /\ prev.path = new_path)
        => \A q \in DOMAIN fs0 : Under(q, <<nBin>>) => (q \in DOMAIN fs /\ fs[q] = fs0[q])

\* ----------------------------------------------------------------- C2
\* The first line of data, with its '\n'; <<>> when data holds no '\n'.
FirstByteLine(data) ==
    LET ends == { i \in DOMAIN data : data[i] = LF }
    IN  IF ends = {} THEN <<>>
        ELSE SubSeq(data, 1, CHOOSE i \in ends : \A j \in ends : i <= j)

\* data starts with the line `#!<old>/bin/python <args...>`: the token right
\* after "#!", single blanks, '\n', and the interpreter is not the new one.
C2_Form(data, P) ==
    LET line == FirstByteLine(data)
        args == Split(Tail2(line, 3))
    IN  /\ StartsWith(line, Txt(<<"#", "!">>))
        /\ args # <<>>
        /\ line = Txt(<<"#", "!">>) \o JoinWith(<<SP>>, args) \o <<LF>>
        /\ EndsWith(args[1], Txt(<<"/", "bin", "/", "python">>))
        /\ args[1] # P \o Txt(<<"/", "bin", "/", "python">>)

\* The same bytes with the interpreter token replaced and nothing else.
C2_Expected(data, P) ==
    LET tok == Split(Tail2(FirstByteLine(data), 3))[1]
    IN  Txt(<<"#", "!">>) \o P \o Txt(<<"/", "bin", "/", "python">>)
            \o Tail2(data, 3 + Len(tok))

\* C2: once update_script has handled a generic script of that form, the file
\* holds the new interpreter in its first line, the arguments after it, and
\* every other byte as it was, whatever the bytes after the first line are
\* (for a target without a trailing '/', where <new_path>/bin/python is what
\* os.path.join gives).
C2_OnlyFirstLine ==
    \A fn \in Range(visited) \ ACTIVATION_SCRIPTS :
        LET p == <<nBin, fn>>
        IN  (/\ Accepted
             /\ fs0[p].kind = "file"
             /\ ~EndsWith(new_path, <<SLASH>>)
             /\ C2_Form(fs0[p].data, new_path))
                => fs[p].data = C2_Expected(fs0[p].data, new_path)

\* ----------------------------------------------------------------- C3
\* The three assignment forms, up to the opening quote.
C3_Forms ==
    { Txt(<<"VIRTUAL_ENV", "=", "\"">>),
      Txt(<<"setenv", " ", "VIRTUAL_ENV", " ", "\"">>),
      Txt(<<"set", " ", "-gx", " ", "VIRTUAL_ENV", " ", "\"">>) }

\* One line of the file (bytes up to and with its '\n'): when it is one of the
\* three forms, with only white space after the closing quote, the bytes
\* between the quotes are replaced by P; any other line is kept.
C3_Line(line, P) ==
    LET hs == { h \in C3_Forms : StartsWith(line, h) }
        h == CHOOSE x \in hs : TRUE
        qs == { q \in (Len(h) + 1)..Len(line) :
                  /\ line[q] = QUOTE
                  /\ \A j \in (q + 1)..Len(line) : IsSpace(line[j]) }
    IN  IF hs = {} \/ qs = {} THEN line
        ELSE SubSeq(line, 1, Len(h)) \o P \o Tail2(line, CHOOSE q \in qs : TRUE)

C3_Expected(data, P) ==
    LET lines == SplitLines(data)
    IN  Concat([i \in DOMAIN lines |-> C3_Line(lines[i], P)])

\* C3: once update_activation_script has handled an activation script without
\* raising, the file holds, byte for byte, its former lines with the payload of
\* each line of the three forms replaced, and an A notice was printed exactly
\* when the file changed.
C3_OnlyPayload ==
    \A fn \in Range(visited) \cap ACTIVATION_SCRIPTS :
        LET p == <<nBin, fn>>
        IN  (Accepted /\ fs0[p].kind = "file" /\ ~(rv = "raised" /\ Last(visited) = fn))
                => /\ fs[p].data = C3_Expected(fs0[p].data, new_path)
                   /\ (Notice("A", p) \in Range(out)) <=> (fs[p].data # fs0[p].data)

\* ----------------------------------------------------------------- C4
\* The four reasons of the claim, read off the filesystem the run started on.
C4_Invalid(f, P) ==
    \/ P = <<>> \/ P[1] # SLASH
    \/ ~\E q \in DOMAIN f : Len(q) = 2 /\ q[1] = nLib /\ pybin_match(q[2])
    \/ ~isdir(f, <<nBin>>)
    \/ ~isfile(f, <<nBin, nPython>>)

\* C4: a run started with a target that is not absolute, or on a root without
\* a lib/python<digits>.<digits> entry, without a bin directory or without a
\* bin/python file, returns False at once: the filesystem is the one the run
\* started on and nothing but the error line was printed.
C4_RejectsUntouched ==
    (runs > 0 /\ C4_Invalid(fs0, new_path))
        => /\ rv = "False"
           /\ pc = "idle"
           /\ fs = fs0
           /\ out = <<Notice("error", <<>>)>>

\* A root with scripts to rewrite, bytecode to delete and a wrong link, but no
\* bin/python file, was rejected.
C4_Witness ==
    /\ rv = "False"
    /\ IsAbs(new_path)
    /\ <<nBin, nPip>> \in DOMAIN fs
    /\ ~isfile(fs, <<nBin, nPython>>)
    /\ <<nLib, Py311, nPyc>> \in DOMAIN fs
    /\ <<nLocal, nBin>> \in DOMAIN fs

\* ----------------------------------------------------------------- C5
C5_Bytecode(f, q) == Last(q)[Len(Last(q))] \in {".pyc", ".pyo"} /\ ~isdir(f, q)

C6_FirstLine(data) ==
    LET ends == { i \in DOMAIN data : data[i] \in {LF, CR} }
    IN  IF ends = {} THEN data
        ELSE SubSeq(data, 1, (CHOOSE i \in ends : \A j \in ends : i <= j) - 1)

\* The six cases of the claim.
C6_LeftAlone(data, P) ==
    LET line == C6_FirstLine(data)
        args == Split(Tail2(line, 3))
    IN  \/ data = <<>>
        \/ ~(Len(line) >= 2 /\ line[1] = Ch("#") /\ line[2] = Ch("!"))
        \/ args = <<>>
        \/ ~EndsWith(args[1], Txt(<<"/", "bin", "/", "python">>))
        \/ line = Txt(<<"#", "!", "/", "usr", "/", "bin", "/", "env", " ", "python">>)
        \/ args[1] = NewBin(P)

\* C6: a generic script in one of the six cases is, after update_script has
\* handled it, the node it was, and no S notice names it.
C6_NoWrite ==
    \A fn \in Range(visited) \ ACTIVATION_SCRIPTS :
        LET p == <<nBin, fn>>
        IN  (Accepted /\ CanOpen(fs0[p]) /\ C6_LeftAlone(fs0[p].data, new_path))
                => fs[p] = fs0[p] /\ Notice("S", p) \notin Range(out)

\* update_script has handled bin/pip, whose interpreter is already the new one.
C6_Witness ==
    /\ Accepted
    /\ nPip \in Range(visited)
    /\ fs0[<<nBin, nPip>>].data # <<>>
    /\ StartsWith(fs0[<<nBin, nPip>>].data, Txt(<<"#", "!", "/", "new", "/", "bin", "/", "python">>))
    /\ NewBin(new_path) = Txt(<<"/", "new", "/", "bin", "/", "python">>)

\* ----------------------------------------------------------------- C7
C7_Folders == {nBin, nLib, nInclude}
C7_Acts(f, folder) ==
    /\ isdir(f, <<nLocal>>)
    /\ <<nLocal, folder>> \in DOMAIN f
    /\ f[<<nLocal, folder>>].kind = "link"
    /\ f[<<nLocal, folder>>].target # <<"..", "/">> \o folder

\* C7: when update_paths has returned True, each of local/bin, local/lib and
\* local/include that was a link with another target than ../<name> (below a
\* directory local/) is a link to ../<name> with exactly one L notice; every
\* other entry at or below local/ is as it was, with no L notice.
C7_LinkFarm ==
    rv = "True"
        => /\ \A folder \in C7_Folders :
                LET p == <<nLocal, folder>>
                IN  IF C7_Acts(fs0, folder)
                    THEN /\ p \in DOMAIN fs
                         /\ fs[p].kind = "link"
                         /\ fs[p].target = <<"..", "/">> \o folder
                         /\ Count(out, Notice("L", p)) = 1
                    ELSE /\ p \in DOMAIN fs <=> p \in DOMAIN fs0
                         /\ p \in DOMAIN fs => fs[p] = fs0[p]
                         /\ Count(out, Notice("L", p)) = 0
           /\ \A q \in DOMAIN fs \cup DOMAIN fs0 :
                (q[1] = nLocal /\ ~(Len(q) = 2 /\ q[2] \in C7_Folders))
                    => q \in DOMAIN fs /\ q \in DOMAIN fs0 /\ fs[q] = fs0[q]
           /\ \A i \in DOMAIN out :
                out[i][1] = "L" => \E folder \in C7_Folders : out[i][2] = <<nLocal, folder>>

\* A run returned True on a farm with a wrong link, a right link and no
\* include entry.
C7_Witness ==
    /\ rv = "True"
    /\ C7_Acts(fs0, nBin)
    /\ <<nLocal, nLib>> \in DOMAIN fs0 /\ ~C7_Acts(fs0, nLib)
    /\ <<nLocal, nInclude>> \notin DOMAIN fs0

\* ----------------------------------------------------------------- C8
C8_Versioned(f) == { q \in DOMAIN f : Len(q) = 2 /\ q[1] = nLib /\ pybin_match(q[2]) }

\* C8 as stated: a root is accepted only if bin/python is a file and exactly
\* one entry of lib/ matches python<digits>.<digits> and is a directory.
C8_ExactlyOne ==
    Accepted
        => /\ isfile(fs0, <<nBin, nPython>>)
           /\ Cardinality(C8_Versioned(fs0)) = 1
           /\ \A q \in C8_Versioned(fs0) : isdir(fs0, q)

\* C8 amended: a root is accepted exactly when the target is absolute, bin/ is
\* a directory, bin/python is a file and at least one entry of lib/ matches;
\* lib_dir is one of the matching entries, whatever their number and kind.
C8_AtLeastOne ==
    runs > 0
        => /\ Accepted <=> (/\ IsAbs(new_path)
                            /\ isdir(fs0, <<nBin>>)
                            /\ isfile(fs0, <<nBin, nPython>>)
                            /\ C8_Versioned(fs0) # {})
           /\ Accepted => lib_dir \in C8_Versioned(fs0)

\* A run returned True on a root with two matching entries; the one it took
\* is not a directory.
C8_Witness ==
    /\ rv = "True"
    /\ Cardinality(C8_Versioned(fs0)) = 2
    /\ ~isdir(fs0, lib_dir)

\* ----------------------------------------------------------------- C9
C9_BinPart(f) == [q \in { x \in DOMAIN f : x[1] = nBin } |-> f[q]]
C9_LibPart(f) == [q \in { x \in DOMAIN f : x[1] = nLib } |-> f[q]]
C9_LocalPart(f) == [q \in { x \in DOMAIN f : x[1] = nLocal } |-> f[q]]

\* C9: within a run, a step that changes lib/ is taken only when every entry
\* of bin/ has been handled; a step that changes local/ only when no bytecode
\* file is left below lib_dir; from the bytecode stage on bin/ is not changed
\* any more, and in the link stage lib/ is not; a step that raises in one of
\* the two later stages changes nothing, and after it nothing changes and True
\* is not returned.
C9_StagesInOrder ==
    [][ (runs' = runs) =>
          /\ C9_LibPart(fs') # C9_LibPart(fs)
                => pc = "pycs" /\ Range(visited) = listdir(fs0, <<nBin>>)
          /\ C9_LocalPart(fs') # C9_LocalPart(fs)
                => pc = "local" /\ \A q \in DOMAIN fs : Under(q, lib_dir) => ~C5_Bytecode(fs, q)
          /\ pc \in {"pycs", "local"} => C9_BinPart(fs') = C9_BinPart(fs)
          /\ pc = "local" => C9_LibPart(fs') = C9_LibPart(fs)
          /\ (rv' = "raised" /\ pc \in {"pycs", "local"}) => fs' = fs
          /\ rv = "raised" => (rv' = "raised" /\ fs' = fs)
      ]_vars

\* The link stage raised after a script was rewritten and a bytecode file
\* deleted: both changes are in place.
C9_Witness ==
    /\ rv = "raised"
    /\ pc = "local"
    /\ fs[<<nBin, nPip>>].data # fs0[<<nBin, nPip>>].data
    /\ <<nLib, Py311, nPyc>> \in DOMAIN fs0 \ DOMAIN fs
    /\ C9_LocalPart(fs) = C9_LocalPart(fs0)

\* ----------------------------------------------------------------- C10
\* C10: update_scripts runs to completion whatever bin/ holds and has then
\* handled every direct child of bin/ exactly once; a generic script that is in
\* none of the cases update_script leaves alone has its S notice once handled;
\* A notices name activation scripts and S notices the other entries; nothing
\* below a subdirectory of bin/ is ever changed.
C10_RunsToCompletion ==
    Accepted
        => /\ ~(pc = "scripts" /\ rv = "raised")
           /\ (pc # "scripts" \/ todo = {})
                => \A fn \in listdir(fs0, <<nBin>>) : Count(visited, fn) = 1
           /\ \A fn \in Range(visited) \ ACTIVATION_SCRIPTS :
                (fs0[<<nBin, fn>>].kind = "file"
                    /\ ~C6_LeftAlone(fs0[<<nBin, fn>>].data, new_path))
                    => Notice("S", <<nBin, fn>>) \in Range(out)
           /\ \A i \in DOMAIN out :
                /\ out[i][1] = "A" => Last(out[i][2]) \in ACTIVATION_SCRIPTS
                /\ out[i][1] = "S" => Last(out[i][2]) \notin ACTIVATION_SCRIPTS
           /\ \A q \in DOMAIN fs0 :
                (Len(q) >= 3 /\ q[1] = nBin) => (q \in DOMAIN fs /\ fs[q] = fs0[q])

=============================================================================
